---- MODULE Spec2Model ----
(***************************************************************************)
(* A model of the TLDW recommender: the MiniLM preprocessing pipeline      *)
(* (TLDW/utils/minilm_preprocess.py), the query-time recommender           *)
(* (utils/minilm_get_recommedations.py), the Streamlit script               *)
(* (TLDW/streamlit_app.py) and the chat wrapper                             *)
(* (TLDW/utils/chat_to_search.py).                                          *)
(*                                                                          *)
(* A text is a sequence of characters.  A catalog cell is a record          *)
(* [isStr, text]: pandas yields a float NaN, not a str, for a missing cell. *)
(* A document vector is kept as [sum, n], standing for sum / n, so that the *)
(* mean over zero chunks (numpy's nan) is the value with n = 0.             *)
(***************************************************************************)
EXTENDS Integers, Sequences, FiniteSets, TLC

VARIABLES
    ch_text,      \* chunking: the text being sliced
    ch_size,      \* chunking: the chunk size in use
    ch_chunks,    \* chunking: the list the comprehension produced
    ch_pc,        \* chunking: "start" | "done"
    catalog,      \* per category, the rows of the catalog CSV
    file,         \* per category, the pickle file on disk
    pre,          \* the offline preprocess_minilm process
    runs,         \* preprocess_minilm runs started
    last,         \* the server process's last get_minilm_recs call
    model_loads,  \* SentenceTransformer(...) constructions in the server process
    queries,      \* get_minilm_recs calls made
    session,      \* st.session_state: transcript, summary, keywords
    messages,     \* st.session_state.messages (<<>>: the key is not set)
    app,          \* the Streamlit script run in progress, or the last one
    app_runs,     \* script runs started
    chat,         \* the last get_search_result call
    api_key       \* whether GEMINI_API_KEY is set in the environment

vars == <<ch_text, ch_size, ch_chunks, ch_pc, catalog, file, pre, runs, last,
          model_loads, queries, session, messages, app, app_runs, chat, api_key>>

chunkVars == <<ch_text, ch_size, ch_chunks, ch_pc>>
storeVars == <<catalog, file, pre, runs, last, model_loads, queries>>
appVars == <<session, messages, app, app_runs, chat, api_key>>

----------------------------------------------------------------------------
(* Bounds of the model. *)

\* longest short text drawn as an input
MaxLen == 4
\* largest chunk size drawn beside the program's own
MaxChunk == 3

\* chunk_size = 256, the same in both paths
chunk_size == 256

\* ranked_transcripts[:3]
topK == 3

Alphabet == {"a", "b"}

Min(a, b) == IF a <= b THEN a ELSE b

Abs(a) == IF a < 0 THEN -a ELSE a

RECURSIVE TextsOfLen(_)
TextsOfLen(n) ==
    IF n = 0 THEN {<<>>}
    ELSE {Append(t, c) : t \in TextsOfLen(n - 1), c \in Alphabet}

ShortTexts == UNION {TextsOfLen(n) : n \in 0..MaxLen}

\* a text of length n that no chunking of size chunk_size maps onto itself
Pattern(n) == [i \in 1..n |-> IF i % 3 = 1 THEN "a" ELSE "b"]

LongTexts ==
    {Pattern(n) : n \in {chunk_size - 1, chunk_size, chunk_size + 1,
                         2 * chunk_size, 2 * chunk_size + 1}}

----------------------------------------------------------------------------
(* The list comprehension of both paths:                                    *)
(*   [t[i:i+chunk_size] for i in range(0, len(t), chunk_size)]              *)

\* Python's t[lo:hi] for 0 <= lo <= hi: both ends clamped to len(t)
Slice(t, lo, hi) == SubSeq(t, Min(lo, Len(t)) + 1, Min(hi, Len(t)))

\* range(0, n, step) as a sequence
Range(n, step) == [k \in 1..((n + step - 1) \div step) |-> (k - 1) * step]

\* a comprehension that drops the last character of every slice
ChunksShort(t, size) ==
    [k \in 1..Len(Range(Len(t), size)) |->
        Slice(t, Range(Len(t), size)[k], Range(Len(t), size)[k] + size - 1)]

Chunks(t, size) ==
    [k \in 1..Len(Range(Len(t), size)) |->
        Slice(t, Range(Len(t), size)[k], Range(Len(t), size)[k] + size)]

RECURSIVE Concat(_)
Concat(ss) == IF ss = <<>> THEN <<>> ELSE Head(ss) \o Concat(Tail(ss))

----------------------------------------------------------------------------
(* The embedder and the document vector.                                    *)

\* model.encode(chunk): the sentence-transformer is outside the repository;
\* it stands here as a deterministic map from a chunk to a 2-dimensional
\* vector (the counts of each character), non-zero for a non-empty chunk.
encode(chunk) ==
    <<Cardinality({i \in 1..Len(chunk) : chunk[i] = "a"}),
      Cardinality({i \in 1..Len(chunk) : chunk[i] = "b"})>>

RECURSIVE VecSum(_)
VecSum(vs) ==
    IF vs = <<>> THEN <<0, 0>>
    ELSE <<Head(vs)[1] + VecSum(Tail(vs))[1], Head(vs)[2] + VecSum(Tail(vs))[2]>>

\* np.mean([], axis=0): nan, with a RuntimeWarning and no exception
NaN == [sum |-> <<0, 0>>, n |-> 0]

IsNaN(v) == v.n = 0

\* np.mean(vectors, axis=0), kept as the pair (sum, count)
mean(vs) == IF vs = <<>> THEN NaN ELSE [sum |-> VecSum(vs), n |-> Len(vs)]

\* np.mean([model.encode(chunk) for chunk in chunks], axis=0)
vectorize(t) ==
    mean([k \in 1..Len(Chunks(t, chunk_size)) |-> encode(Chunks(t, chunk_size)[k])])

----------------------------------------------------------------------------
(* cosine_similarity, sorted(..., reverse=True) and the [:3] slice.         *)

Dot(u, v) == u[1] * v[1] + u[2] * v[2]

\* The cosine of the angle between q and v, kept exactly as the rational
\* num / den = cos * |cos| (x * |x| is strictly increasing, so the order and
\* the ties of the scores are those of the cosines).  The scale 1/n of a mean
\* cancels in a cosine.  sklearn normalises a zero vector to itself: score 0.
cosine(q, v) ==
    IF Dot(q.sum, q.sum) = 0 \/ Dot(v.sum, v.sum) = 0
    THEN [num |-> 0, den |-> 1]
    ELSE [num |-> Dot(q.sum, v.sum) * Abs(Dot(q.sum, v.sum)),
          den |-> Dot(q.sum, q.sum) * Dot(v.sum, v.sum)]

ScoreLT(s, t) == s.num * t.den < t.num * s.den

ScoreEQ(s, t) == s.num * t.den = t.num * s.den

\* cosine_similarity([q], embeddings) validates its arguments: an empty
\* collection, or one holding a nan entry, raises ValueError
cosine_rejects(embeddings) ==
    \/ embeddings = <<>>
    \/ \E i \in 1..Len(embeddings) : IsNaN(embeddings[i])

cosine_similarity(q, embeddings) ==
    [i \in 1..Len(embeddings) |-> cosine(q, embeddings[i])]

\* zip(titles, similarity_scores): stops at the shorter of the two
zip(titles, scores) ==
    [i \in 1..Min(Len(titles), Len(scores)) |->
        [title |-> titles[i], score |-> scores[i]]]

\* put x after every entry whose score is >= its own
RECURSIVE InsertDesc(_, _)
InsertDesc(r, x) ==
    IF r = <<>> THEN <<x>>
    ELSE IF ScoreLT(Head(r).score, x.score) THEN <<x>> \o r
    ELSE <<Head(r)>> \o InsertDesc(Tail(r), x)

\* put x before every entry whose score is <= its own
RECURSIVE InsertDescFirst(_, _)
InsertDescFirst(r, x) ==
    IF r = <<>> THEN <<x>>
    ELSE IF ~ScoreLT(x.score, Head(r).score) THEN <<x>> \o r
    ELSE <<Head(r)>> \o InsertDescFirst(Tail(r), x)

RECURSIVE SortedFrom(_, _, _)
SortedFrom(acc, ps, first) ==
    IF ps = <<>> THEN acc
    ELSE SortedFrom(IF first THEN InsertDescFirst(acc, Head(ps))
                    ELSE InsertDesc(acc, Head(ps)),
                    Tail(ps), first)

\* a descending sort that reverses the order of equal scores, as
\* sorted(pairs, key=...)[::-1] would
sorted_reversing_ties(pairs) == SortedFrom(<<>>, pairs, TRUE)

\* sorted(pairs, key=lambda x: x[1], reverse=True): Python's sort is stable,
\* and reverse=True keeps the original order of equal keys
sorted_reverse(pairs) == SortedFrom(<<>>, pairs, FALSE)

\* a slice that stops short of nothing
top_all(ranked) == ranked

\* ranked_transcripts[:3]
top_recommendations(ranked) == Slice(ranked, 0, topK)

\* lines 49-56: scores, ranking and truncation
rank(titles, embeddings, q) ==
    top_recommendations(sorted_reverse(zip(titles, cosine_similarity(q, embeddings))))

----------------------------------------------------------------------------
(* The disk: per category a catalog CSV and a pickle file of embeddings.    *)

\* rows over both catalogs together
MaxItems == 3
\* preprocess_minilm runs started
MaxRuns == 2
\* get_minilm_recs calls made
MaxQueries == 2

Categories == {"ted", "podcast"}

\* a catalog's transcript cell: pandas reads a missing cell as float nan
NotAStr == [isStr |-> FALSE, text |-> <<>>]

Str(t) == [isStr |-> TRUE, text |-> t]

Cells == {NotAStr, Str(<<>>), Str(<<"a">>), Str(<<"b">>)}

RECURSIVE SeqsOfLen(_, _)
SeqsOfLen(S, n) ==
    IF n = 0 THEN {<<>>}
    ELSE {Append(q, x) : q \in SeqsOfLen(S, n - 1), x \in S}

\* a catalog whose rows are titled by their position
Rows(cells) == [i \in 1..Len(cells) |-> [title |-> i, transcript |-> cells[i]]]

NoFile == [exists |-> FALSE, data |-> <<>>, complete |-> FALSE]

\* transcripts a user submits
Inputs == {<<>>, <<"a">>, <<"a", "b">>}

NoCall ==
    [status |-> "none", cat |-> "ted", input |-> <<>>, read |-> "none",
     titles |-> <<>>, embeddings |-> <<>>, qvec |-> <<>>, recs |-> <<>>]

Idle == [pc |-> "idle", cat |-> "ted", embeddings |-> <<>>]

(* The parts of the state a specification leaves alone.                     *)

ChunkOff ==
    /\ ch_text = <<>>
    /\ ch_size = chunk_size
    /\ ch_chunks = <<>>
    /\ ch_pc = "off"

StoreOff ==
    /\ catalog = [c \in Categories |-> <<>>]
    /\ file = [c \in Categories |-> NoFile]
    /\ pre = Idle
    /\ runs = 0
    /\ last = NoCall
    /\ model_loads = 0
    /\ queries = 0

NoSession == [transcript |-> "unset", summary |-> "unset", keywords |-> "unset"]

NoRun ==
    [pc |-> "idle", widget |-> "none", buttons |-> FALSE, chat_input |-> FALSE,
     error_shown |-> FALSE, results_shown |-> FALSE, unhandled |-> "none"]

NoChat == [status |-> "none", before |-> <<>>, returned |-> ""]

AppOff ==
    /\ session = NoSession
    /\ messages = <<>>
    /\ app = NoRun
    /\ app_runs = 0
    /\ chat = NoChat
    /\ api_key = TRUE

\* data_df["title"].tolist()
titles_of(c) == [i \in 1..Len(catalog[c]) |-> catalog[c][i].title]

\* load_data: pd.read_csv, then pickle.load of the category's file.  open()
\* of a file that was never written raises FileNotFoundError; pickle.load of
\* a file whose dump did not finish raises EOFError (UnpicklingError when cut
\* inside an item); neither is caught.  The lengths are not compared.
load_data(c) ==
    IF ~file[c].exists
    THEN [status |-> "FileNotFoundError", read |-> "missing",
          titles |-> <<>>, embeddings |-> <<>>]
    ELSE IF ~file[c].complete
    THEN [status |-> "EOFError", read |-> "partial",
          titles |-> <<>>, embeddings |-> <<>>]
    ELSE [status |-> "ok", read |-> "complete",
          titles |-> titles_of(c), embeddings |-> file[c].data]

\* validation.validate_input_transcript, by the docstring of get_minilm_recs:
\* ValueError if input_transcript is an empty string
validate_input_transcript(t) == IF t = <<>> THEN "ValueError" ELSE "ok"

\* the record of one get_minilm_recs(input_transcript, ted_or_podcast) call
recs_call(t, c) ==
    IF validate_input_transcript(t) # "ok"
    THEN [NoCall EXCEPT !.status = "ValueError", !.cat = c, !.input = t]
    ELSE IF load_data(c).status # "ok"
    THEN [NoCall EXCEPT !.status = load_data(c).status, !.cat = c, !.input = t,
                        !.read = load_data(c).read]
    ELSE IF cosine_rejects(load_data(c).embeddings)
    THEN [status |-> "ValueError", cat |-> c, input |-> t,
          read |-> load_data(c).read, titles |-> load_data(c).titles,
          embeddings |-> load_data(c).embeddings, qvec |-> <<vectorize(t)>>,
          recs |-> <<>>]
    ELSE [status |-> "ok", cat |-> c, input |-> t,
          read |-> load_data(c).read, titles |-> load_data(c).titles,
          embeddings |-> load_data(c).embeddings, qvec |-> <<vectorize(t)>>,
          recs |-> rank(load_data(c).titles, load_data(c).embeddings,
                        vectorize(t))]

\* model = SentenceTransformer(...) runs in every call that gets past
\* validation and load_data
loads_after(n) == n + 1

get_minilm_recs(t, c) ==
    /\ queries < MaxQueries
    /\ queries' = queries + 1
    /\ last' = recs_call(t, c)
    /\ model_loads' = IF validate_input_transcript(t) = "ok" /\ load_data(c).status = "ok"
                      THEN loads_after(model_loads)
                      ELSE model_loads
    /\ UNCHANGED <<catalog, file, pre, runs>>
    /\ UNCHANGED chunkVars
    /\ UNCHANGED appVars

----------------------------------------------------------------------------
(* preprocess_minilm, step by step; the process may be killed between any   *)
(* two steps.                                                                *)

\* the transcripts that reach the embeddings list: those that are str
RECURSIVE embed_all(_)
embed_all(rows) ==
    IF rows = <<>> THEN <<>>
    ELSE IF Head(rows).transcript.isStr
         THEN <<vectorize(Head(rows).transcript.text)>> \o embed_all(Tail(rows))
         ELSE embed_all(Tail(rows))

\* lines 32-48: load the transcripts and the model, embed every transcript
PreEmbed(c) ==
    /\ pre.pc = "idle"
    /\ runs < MaxRuns
    /\ runs' = runs + 1
    /\ pre' = [pc |-> "embedded", cat |-> c, embeddings |-> embed_all(catalog[c])]
    /\ UNCHANGED <<catalog, file, last, model_loads, queries>>
    /\ UNCHANGED chunkVars
    /\ UNCHANGED appVars

\* open(..., 'wb'): the file of the category is created or truncated in place
PreOpen ==
    /\ pre.pc = "embedded"
    /\ file' = [file EXCEPT ![pre.cat] =
                   [exists |-> TRUE, data |-> <<>>, complete |-> FALSE]]
    /\ pre' = [pre EXCEPT !.pc = "opened"]
    /\ UNCHANGED <<catalog, runs, last, model_loads, queries>>
    /\ UNCHANGED chunkVars
    /\ UNCHANGED appVars

\* pickle.dump: the buffered writer flushes the pickle to disk piece by piece
PreWrite ==
    /\ pre.pc = "opened"
    /\ Len(file[pre.cat].data) < Len(pre.embeddings)
    /\ file' = [file EXCEPT ![pre.cat].data =
                   Append(@, pre.embeddings[Len(@) + 1])]
    /\ UNCHANGED <<catalog, pre, runs, last, model_loads, queries>>
    /\ UNCHANGED chunkVars
    /\ UNCHANGED appVars

\* the end of the with block: the last bytes are flushed and the file closed
PreClose ==
    /\ pre.pc = "opened"
    /\ Len(file[pre.cat].data) = Len(pre.embeddings)
    /\ file' = [file EXCEPT ![pre.cat].complete = TRUE]
    /\ pre' = Idle
    /\ UNCHANGED <<catalog, runs, last, model_loads, queries>>
    /\ UNCHANGED chunkVars
    /\ UNCHANGED appVars

\* the process is interrupted: nothing it wrote is undone
PreKill ==
    /\ pre.pc # "idle"
    /\ pre' = Idle
    /\ UNCHANGED <<catalog, file, runs, last, model_loads, queries>>
    /\ UNCHANGED chunkVars
    /\ UNCHANGED appVars

InitStore ==
    /\ \E n1 \in 0..MaxItems : \E n2 \in 0..(MaxItems - n1) :
          \E c1 \in SeqsOfLen(Cells, n1) : \E c2 \in SeqsOfLen(Cells, n2) :
              catalog = [c \in Categories |-> IF c = "ted" THEN Rows(c1) ELSE Rows(c2)]
    /\ file = [c \in Categories |-> NoFile]
    /\ pre = Idle
    /\ runs = 0
    /\ last = NoCall
    /\ model_loads = 0
    /\ queries = 0
    /\ ChunkOff
    /\ AppOff

NextStore ==
    \/ \E c \in Categories : PreEmbed(c)
    \/ PreOpen
    \/ PreWrite
    \/ PreClose
    \/ PreKill
    \/ \E t \in Inputs : \E c \in Categories : get_minilm_recs(t, c)

SpecStore == InitStore /\ [][NextStore]_vars

----------------------------------------------------------------------------
(* The recommender on a drawn disk state: a catalog beside a complete       *)
(* embedding file, as left by earlier preprocessing runs and catalog edits: *)
(* as many vectors as rows, or one fewer (a row skipped) or one more.       *)

\* rows of the drawn catalog, and vectors of the drawn embedding file
MaxCorpus == 4

\* what a complete file can hold: the vectors of transcripts (two of them
\* parallel, so that different documents tie), and nan
DocVecs ==
    {vectorize(<<"a">>), vectorize(<<"b">>), vectorize(<<"a", "b">>),
     vectorize(<<"a", "a", "b", "b">>), vectorize(<<>>)}

InitRank ==
    /\ \E held \in Categories : \E m \in 0..MaxCorpus :
          \E n \in {k \in 0..MaxCorpus : k - m \in {-1, 0, 1}} :
          \E vs \in SeqsOfLen(DocVecs, m) :
              /\ catalog = [c \in Categories |->
                               IF c = held THEN Rows([i \in 1..n |-> Str(<<"a">>)])
                               ELSE <<>>]
              /\ file = [c \in Categories |->
                            IF c = held
                            THEN [exists |-> TRUE, data |-> vs, complete |-> TRUE]
                            ELSE NoFile]
    /\ pre = Idle
    /\ runs = 0
    /\ last = NoCall
    /\ model_loads = 0
    /\ queries = 0
    /\ ChunkOff
    /\ AppOff

NextRank == \E t \in Inputs : \E c \in Categories : get_minilm_recs(t, c)

SpecRank == InitRank /\ [][NextRank]_vars

\* the entries the ranking pairs up: zip stops at the shorter list
Paired == 1..Min(Len(last.titles), Len(last.embeddings))

C2_StableTies ==
    last.status = "ok" =>
        /\ \A a \in 1..Len(last.recs) : \A b \in 1..Len(last.recs) :
              (a < b /\ ScoreEQ(last.recs[a].score, last.recs[b].score))
                  => last.recs[a].title < last.recs[b].title
        /\ \A i \in Paired : \A k \in 1..Len(last.recs) :
              (\A a \in 1..Len(last.recs) : last.recs[a].title # last.titles[i])
                  => \/ ScoreLT(cosine(last.qvec[1], last.embeddings[i]),
                                last.recs[k].score)
                     \/ /\ ScoreEQ(cosine(last.qvec[1], last.embeddings[i]),
                                   last.recs[k].score)
                        /\ last.recs[k].title < last.titles[i]

\* two different documents tie inside the result, and a third ties with the
\* last kept entry from outside it
C2_Witness ==
    /\ last.status = "ok"
    /\ Len(last.recs) = topK
    /\ ScoreEQ(last.recs[2].score, last.recs[3].score)
    /\ last.embeddings[last.recs[2].title] # last.embeddings[last.recs[3].title]
    /\ \E i \in Paired :
          /\ \A a \in 1..Len(last.recs) : last.recs[a].title # last.titles[i]
          /\ ScoreEQ(cosine(last.qvec[1], last.embeddings[i]), last.recs[3].score)

----------------------------------------------------------------------------
(* Statements about the pipeline and the store, checked under SpecStore.    *)

\* C3: once a preprocessing run has completed and the corpus is loaded, every
\* loaded vector i is the document embedding of catalog item i.
C3_OrderAligned ==
    last.read = "complete" =>
        \A i \in 1..Len(last.embeddings) :
            /\ i <= Len(catalog[last.cat])
            /\ catalog[last.cat][i].transcript.isStr
            /\ last.embeddings[i] = vectorize(catalog[last.cat][i].transcript.text)

\* C4: a load never hands back an item list and a vector list of different
\* lengths.
C4_LengthsMatch ==
    last.read = "complete" => Len(last.titles) = Len(last.embeddings)

\* C5: the embedding file a load reads is a complete collection, never the
\* empty or half-written file of an unfinished dump.
C5_LoadReadsComplete ==
    last.read # "partial"

\* C7: an empty text yields no vector: the query path rejects it with an
\* input error before any vector exists, and no nan vector (the mean over
\* zero chunks) is computed by the pipeline or written to an embedding file.
C7_NoVectorOfEmptyText ==
    /\ (last.status # "none" /\ last.input = <<>>) =>
          (last.status = "ValueError" /\ last.qvec = <<>>)
    /\ \A i \in 1..Len(pre.embeddings) : ~IsNaN(pre.embeddings[i])
    /\ \A c \in Categories : \A i \in 1..Len(file[c].data) : ~IsNaN(file[c].data[i])

\* C9: the server process constructs the embedding model at most once.
C9_ModelLoadedOnce ==
    model_loads <= 1

----------------------------------------------------------------------------
(* get_search_result (chat_to_search.py), on the session's message list.    *)

\* entries of st.session_state.messages
MaxMessages == 7

Greeting == [role |-> "assistant", content |-> "Hi"]

Prompts == {"", "q1", "q2"}

Contexts == {"", "ctx"}

Responses == {"r1", "r2"}

\* what the Gemini client and the search agent do: the agent answers, or
\* llm.invoke or search_agent.run raises
Outcomes == {[kind |-> "ok", response |-> r] : r \in Responses}
            \cup {[kind |-> "raises", response |-> ""]}

\* get_search_result(context, user_prompt) on message list msgs: what the
\* call ends with, the list it leaves, and what it returns
search_result(msgs, context, user_prompt, key, o) ==
    IF context = "" \/ user_prompt = ""
    THEN [status |-> "TypeError", messages |-> msgs, returned |-> ""]
    ELSE IF ~key
    THEN [status |-> "stopped", messages |-> msgs, returned |-> ""]
    ELSE IF o.kind = "raises"
    THEN [status |-> "raised",
          messages |-> Append(msgs, [role |-> "user", content |-> user_prompt]),
          returned |-> ""]
    ELSE [status |-> "returned",
          messages |-> Append(Append(msgs, [role |-> "user", content |-> user_prompt]),
                              [role |-> "assistant", content |-> o.response]),
          returned |-> o.response]

get_search_result(context, user_prompt, o) ==
    /\ Len(messages) + 2 <= MaxMessages
    /\ messages' = search_result(messages, context, user_prompt, api_key, o).messages
    /\ chat' = [status |-> search_result(messages, context, user_prompt, api_key, o).status,
                before |-> messages,
                returned |-> search_result(messages, context, user_prompt, api_key, o).returned]
    /\ UNCHANGED <<session, app, app_runs, api_key>>
    /\ UNCHANGED chunkVars
    /\ UNCHANGED storeVars

InitChat ==
    /\ ChunkOff
    /\ StoreOff
    /\ session = NoSession
    /\ messages = <<Greeting>>
    /\ app = NoRun
    /\ app_runs = 0
    /\ chat = NoChat
    /\ api_key \in BOOLEAN

NextChat ==
    \E context \in Contexts : \E user_prompt \in Prompts : \E o \in Outcomes :
        get_search_result(context, user_prompt, o)

SpecChat == InitChat /\ [][NextChat]_vars

\* the greeting, then user and assistant entries in turn
Alternating(msgs) ==
    /\ Len(msgs) >= 1
    /\ msgs[1] = Greeting
    /\ \A k \in 2..Len(msgs) :
          msgs[k].role = (IF k % 2 = 0 THEN "user" ELSE "assistant")

\* C10: after every call the history is the greeting followed by strictly
\* alternating user/assistant entries; a call with an empty context or prompt
\* raises TypeError and leaves the history as it was; a call that appends the
\* prompt also appends the response it returns.
C10_ChatWellFormed ==
    /\ Alternating(messages)
    /\ (chat.status = "TypeError") => messages = chat.before
    /\ (chat.status # "none" /\ messages # chat.before) =>
          /\ Len(messages) = Len(chat.before) + 2
          /\ messages[Len(messages)] =
                [role |-> "assistant", content |-> chat.returned]

----------------------------------------------------------------------------
(* The Streamlit script (streamlit_app.py): one run per widget interaction, *)
(* the session state kept between the runs of one URL.  An exception no     *)
(* handler catches ends the run; app.unhandled names it.                    *)

\* script runs started
MaxAppRuns == 3

\* how a call into a collaborator ends: it returns, or it raises ValueError,
\* TypeError, or an error of any other type
Ends == {"ok", "ValueError", "TypeError", "Exception"}

\* what a recommender hands back when it returns
Recs == {"frame", "list", "None"}

\* the except clauses of the three getters: ValueError and TypeError only
Caught(e) == e \in {"ValueError", "TypeError"}

Crash(e) == [app EXCEPT !.pc = "ended", !.unhandled = e]

\* text_input's on_change=rerun: a new URL clears every session key, then the
\* script runs from the top (if title:)
SubmitUrl ==
    /\ app.pc \in {"idle", "ended"}
    /\ app_runs < MaxAppRuns
    /\ app_runs' = app_runs + 1
    /\ session' = NoSession
    /\ messages' = <<>>
    /\ app' = [NoRun EXCEPT !.pc = "get_transcript_link"]
    /\ UNCHANGED <<chat, api_key>>
    /\ UNCHANGED chunkVars
    /\ UNCHANGED storeVars

\* a widget the last run drew is used: the script runs again, session kept
Interact(w) ==
    /\ app.pc = "ended"
    /\ app_runs < MaxAppRuns
    /\ w \in {"sbert", "minilm", "tfidf", "radio"} => app.buttons
    /\ w = "chat" => (app.chat_input /\ Len(messages) + 2 <= MaxMessages)
    /\ app_runs' = app_runs + 1
    /\ app' = [NoRun EXCEPT !.pc = "get_transcript_link", !.widget = w]
    /\ UNCHANGED <<session, messages, chat, api_key>>
    /\ UNCHANGED chunkVars
    /\ UNCHANGED storeVars

\* get_transcript_link(title), lines 43-61
get_transcript_link(e) ==
    /\ app.pc = "get_transcript_link"
    /\ IF session.transcript # "unset"
       THEN /\ app' = [app EXCEPT !.pc = "get_summary"]
            /\ UNCHANGED session
       ELSE IF e = "ok"
       THEN /\ session' = [session EXCEPT !.transcript = "set"]
            /\ app' = [app EXCEPT !.pc = "get_summary"]
       ELSE IF Caught(e)
       THEN /\ app' = [app EXCEPT !.pc = "get_summary", !.error_shown = TRUE]
            /\ UNCHANGED session
       ELSE /\ app' = Crash(e)
            /\ UNCHANGED session
    /\ UNCHANGED <<messages, app_runs, chat, api_key>>
    /\ UNCHANGED chunkVars
    /\ UNCHANGED storeVars

\* get_summary(), lines 65-83: the key is set to None first; the argument
\* st.session_state.transcript is read before get_ai_extract is called and
\* raises AttributeError when the key is not set
get_summary(e) ==
    /\ app.pc = "get_summary"
    /\ IF session.summary # "unset"
       THEN /\ app' = [app EXCEPT !.pc = "get_keyword"]
            /\ UNCHANGED session
       ELSE IF session.transcript = "unset"
       THEN /\ session' = [session EXCEPT !.summary = "None"]
            /\ app' = Crash("AttributeError")
       ELSE IF e = "ok"
       THEN /\ session' = [session EXCEPT !.summary = "set"]
            /\ app' = [app EXCEPT !.pc = "get_keyword"]
       ELSE IF Caught(e)
       THEN /\ session' = [session EXCEPT !.summary = "None"]
            /\ app' = [app EXCEPT !.pc = "get_keyword", !.error_shown = TRUE]
       ELSE /\ session' = [session EXCEPT !.summary = "None"]
            /\ app' = Crash(e)
    /\ UNCHANGED <<messages, app_runs, chat, api_key>>
    /\ UNCHANGED chunkVars
    /\ UNCHANGED storeVars

\* get_keyword(), lines 86-104, then the branch on 'transcript' in the
\* session (line 158): without a transcript the run ends here
get_keyword(e) ==
    /\ app.pc = "get_keyword"
    /\ IF session.keywords # "unset"
       THEN /\ app' = [app EXCEPT !.pc = IF session.transcript = "unset"
                                         THEN "ended" ELSE "recommend"]
            /\ UNCHANGED session
       ELSE IF session.transcript = "unset"
       THEN /\ session' = [session EXCEPT !.keywords = "None"]
            /\ app' = Crash("AttributeError")
       ELSE IF e = "ok"
       THEN /\ session' = [session EXCEPT !.keywords = "set"]
            /\ app' = [app EXCEPT !.pc = "recommend"]
       ELSE IF Caught(e)
       THEN /\ session' = [session EXCEPT !.keywords = "None"]
            /\ app' = [app EXCEPT !.pc = "recommend", !.error_shown = TRUE]
       ELSE /\ session' = [session EXCEPT !.keywords = "None"]
            /\ app' = Crash(e)
    /\ UNCHANGED <<messages, app_runs, chat, api_key>>
    /\ UNCHANGED chunkVars
    /\ UNCHANGED storeVars

\* what showing a recommender's value ends with.  The test
\* (recs is not None or not recs.empty) reads .empty of None; the MiniLM and
\* TF-IDF branches then call recs.head(3); create_accordion_recs calls
\* recs.iterrows().  A list has neither head nor iterrows.
show_recs(r) ==
    IF r = "None" THEN "AttributeError"
    ELSE IF r = "list" THEN "AttributeError"
    ELSE "ok"

\* lines 158-190: the radio, the three buttons and the clicked recommender,
\* none of it inside a try.  get_minilm_recs returns a list.
recommend(e, r) ==
    /\ app.pc = "recommend"
    /\ IF app.widget \notin {"sbert", "minilm", "tfidf"}
       THEN app' = [app EXCEPT !.pc = "chat", !.buttons = TRUE]
       ELSE IF e # "ok"
       THEN app' = Crash(e)
       ELSE IF show_recs(IF app.widget = "minilm" THEN "list" ELSE r) # "ok"
       THEN app' = Crash(show_recs(IF app.widget = "minilm" THEN "list" ELSE r))
       ELSE app' = [app EXCEPT !.pc = "chat", !.buttons = TRUE,
                               !.results_shown = TRUE]
    /\ UNCHANGED <<session, messages, app_runs, chat, api_key>>
    /\ UNCHANGED chunkVars
    /\ UNCHANGED storeVars

\* lines 192-207: the greeting on first use, the history, and the chat input
chat_section(user_prompt, o) ==
    /\ app.pc = "chat"
    /\ LET msgs == IF messages = <<>> THEN <<Greeting>> ELSE messages
           res == search_result(msgs, "ctx", user_prompt, api_key, o)
       IN IF app.widget # "chat"
          THEN /\ messages' = msgs
               /\ app' = [app EXCEPT !.pc = "ended", !.chat_input = TRUE]
               /\ UNCHANGED chat
          ELSE /\ messages' = res.messages
               /\ chat' = [status |-> res.status, before |-> msgs,
                           returned |-> res.returned]
               /\ app' = IF res.status = "raised" THEN Crash("Exception")
                         ELSE [app EXCEPT !.pc = "ended", !.chat_input = TRUE,
                                          !.results_shown = (res.status = "returned")]
    /\ UNCHANGED <<session, app_runs, api_key>>
    /\ UNCHANGED chunkVars
    /\ UNCHANGED storeVars

InitApp ==
    /\ ChunkOff
    /\ StoreOff
    /\ session = NoSession
    /\ messages = <<>>
    /\ app = NoRun
    /\ app_runs = 0
    /\ chat = NoChat
    /\ api_key \in BOOLEAN

NextApp ==
    \/ SubmitUrl
    \/ \E w \in {"sbert", "minilm", "tfidf", "chat", "radio"} : Interact(w)
    \/ \E e \in Ends : get_transcript_link(e)
    \/ \E e \in Ends : get_summary(e)
    \/ \E e \in Ends : get_keyword(e)
    \/ \E e \in Ends : \E r \in Recs : recommend(e, r)
    \/ \E user_prompt \in Prompts \ {""} : \E o \in Outcomes :
          chat_section(user_prompt, o)

SpecApp == InitApp /\ [][NextApp]_vars

\* C8: a run of the script ends with no exception left unhandled.
C8_NoUnhandledError ==
    app.pc = "ended" => app.unhandled = "none"

----------------------------------------------------------------------------
(* Chunking on its own: the comprehension applied to a drawn text and size. *)

InitChunk ==
    /\ \E tc \in (ShortTexts \X (1..MaxChunk)) \cup (LongTexts \X {chunk_size}) :
          /\ ch_text = tc[1]
          /\ ch_size = tc[2]
    /\ ch_chunks = <<>>
    /\ ch_pc = "start"
    /\ StoreOff
    /\ AppOff

ChunkText ==
    /\ ch_pc = "start"
    /\ ch_chunks' = Chunks(ch_text, ch_size)
    /\ ch_pc' = "done"
    /\ UNCHANGED <<ch_text, ch_size>>
    /\ UNCHANGED storeVars
    /\ UNCHANGED appVars

NextChunk == ChunkText

SpecChunk == InitChunk /\ [][NextChunk]_vars

\* C6: the chunks concatenate back to the text, every chunk but the last has
\* length exactly the chunk size, and the last has length 1..size, so no
\* chunk is empty.
C6_ChunkRoundTrip ==
    ch_pc = "done" =>
        /\ Concat(ch_chunks) = ch_text
        /\ \A k \in 1..Len(ch_chunks) :
              /\ k < Len(ch_chunks) => Len(ch_chunks[k]) = ch_size
              /\ Len(ch_chunks[k]) >= 1
              /\ Len(ch_chunks[k]) <= ch_size
        /\ (ch_text # <<>>) => Len(ch_chunks) >= 1

\* a text longer than the program's chunk size was cut into several chunks
\* with a shorter remainder
C6_Witness ==
    /\ ch_pc = "done"
    /\ ch_size = chunk_size
    /\ Len(ch_chunks) = 3
    /\ Len(ch_chunks[3]) = 1

====
